---- MODULE Spec2Model ----
(***************************************************************************)
(* A model of bbcode.py: the tokenizer, the option parser, the closing-    *)
(* token matcher, the text transform and the recursive renderer of the     *)
(* Parser class.                                                           *)
(*                                                                         *)
(* Python strings are TLA+ strings; positions are 0-based as in the        *)
(* source, and Slice(s, a, b) is s[a:b].  A value that may be None is a    *)
(* sequence of length 0 (None) or 1 (Some(v)).                             *)
(***************************************************************************)
EXTENDS Integers, Sequences, FiniteSets, TLC

\* Bounds of the model: the number of fragments an input of tokenize, strip and
\* _find_closing_token is put together from, the same for an input of format
\* under every setting of the parser's flags, and the length of an option text.
MaxFrags == 3
MaxFormatFrags == 2
MaxOptLen == 6

VARIABLES parser, op, args, ret

vars == <<parser, op, args, ret>>

None == <<>>
Some(v) == <<v>>
Get(o) == o[1]

----------------------------------------------------------------------------
\* Python string primitives.  A value that is used more than once is handed
\* to an operator as an argument, so that it is worked out once.

Min(S) == CHOOSE x \in S : \A y \in S : x <= y
Max(S) == CHOOSE x \in S : \A y \in S : x >= y

\* the least element of S, or default for the empty set
MinOr(S, default) == IF S = {} THEN default ELSE Min(S)

\* s[a:b] for 0 <= a, b <= len(s)
Slice(s, a, b) == SubSeq(s, a + 1, b)

\* s[i]
CharAt(s, i) == SubSeq(s, i + 1, i + 1)

\* s.find(sub, from)
Find(s, sub, from) ==
  MinOr({i \in from..(Len(s) - Len(sub)) : Slice(s, i, i + Len(sub)) = sub}, -1)

\* sub in s
Contains(s, sub) == \E i \in 0..(Len(s) - Len(sub)) : Slice(s, i, i + Len(sub)) = sub

StartsWith(s, sub) == Len(s) >= Len(sub) /\ Slice(s, 0, Len(sub)) = sub
EndsWith(s, sub) == Len(s) >= Len(sub) /\ Slice(s, Len(s) - Len(sub), Len(s)) = sub

\* s.replace(find, repl) for a non-empty find: the occurrences from the left,
\* non-overlapping; the replacement is not scanned again.  ReplaceAt is given
\* the position i of the first occurrence, -1 if there is none.
RECURSIVE StrReplace(_, _, _)
ReplaceAt(s, find, repl, i) ==
  IF i < 0 THEN s
  ELSE Slice(s, 0, i) \o repl \o StrReplace(Slice(s, i + Len(find), Len(s)), find, repl)

StrReplace(s, find, repl) == ReplaceAt(s, find, repl, Find(s, find, 0))

\* s.split(sep): the list of parts; SplitAt is given the position i of the
\* first separator, -1 if there is none
RECURSIVE Split(_, _)
SplitAt(s, sep, i) ==
  IF i < 0 THEN <<s>>
  ELSE <<Slice(s, 0, i)>> \o Split(Slice(s, i + Len(sep), Len(s)), sep)

Split(s, sep) == SplitAt(s, sep, Find(s, sep, 0))

Whitespace == {" ", "\t", "\n", "\r", "\f"}

\* s.lstrip(): from the first character that is not whitespace
LStrip(s) ==
  Slice(s, Min({i \in 0..Len(s) : i = Len(s) \/ CharAt(s, i) \notin Whitespace}), Len(s))

\* s.rstrip(): up to the last character that is not whitespace
RStrip(s) ==
  Slice(s, 0, Max({i \in 0..Len(s) : i = 0 \/ CharAt(s, i - 1) \notin Whitespace}))

\* s.strip()
Strip(s) == RStrip(LStrip(s))

UpperCase == "ABCDEFGHIJKLMNOPQRSTUVWXYZ"
LowerCase == "abcdefghijklmnopqrstuvwxyz"

\* c.lower() for a character c at position i of UpperCase, or at none (-1)
LowerAt(c, i) == IF i < 0 THEN c ELSE CharAt(LowerCase, i)

LowerChar(c) == LowerAt(c, Find(UpperCase, c, 0))

\* s.lower(), character by character (the two halves, to keep the evaluation
\* shallow)
RECURSIVE Lower(_)
Lower(s) ==
  IF Len(s) = 0 THEN s
  ELSE IF Len(s) = 1 THEN LowerChar(s)
  ELSE Lower(Slice(s, 0, Len(s) \div 2)) \o Lower(Slice(s, Len(s) \div 2, Len(s)))

\* u''.join(parts)
RECURSIVE Join(_)
Join(parts) ==
  IF Len(parts) = 0 THEN ""
  ELSE IF Len(parts) = 1 THEN parts[1]
  ELSE Join(SubSeq(parts, 1, Len(parts) \div 2))
       \o Join(SubSeq(parts, Len(parts) \div 2 + 1, Len(parts)))

\* d[k] = v on a dict
DictSet(d, k, v) == [x \in DOMAIN d \cup {k} |-> IF x = k THEN v ELSE d[x]]
EmptyDict == [x \in {} |-> ""]

----------------------------------------------------------------------------
\* class TagOptions and the Parser's constants.

TagOptions(tag_name, newline_closes, standalone, render_embedded, transform_newlines, escape_html, replace_links, replace_cosmetic) ==
  [tag_name |-> tag_name, newline_closes |-> newline_closes, standalone |-> standalone,
   render_embedded |-> render_embedded, transform_newlines |-> transform_newlines,
   escape_html |-> escape_html, replace_links |-> replace_links,
   replace_cosmetic |-> replace_cosmetic]

\* the class attributes: the flags of a tag registered without keyword arguments
DefaultTagOptions(tag_name) ==
  TagOptions(tag_name, FALSE, FALSE, TRUE, TRUE, TRUE, TRUE, TRUE)

TOKEN_TAG_START == 1
TOKEN_TAG_END == 2
TOKEN_NEWLINE == 3
TOKEN_DATA == 4

REPLACE_ESCAPE == << <<"&", "&amp;">>, <<"<", "&lt;">>, <<">", "&gt;">> >>

REPLACE_COSMETIC ==
  << <<"---", "&mdash;">>, <<"--", "&ndash;">>, <<"...", "&#8230;">>,
     <<"(c)", "&copy;">>, <<"(reg)", "&reg;">>, <<"(tm)", "&trade;">> >>

\* a token: the 4-tuple (token_type, tag_name, tag_options, token_text)
Token(token_type, tag_name, tag_opts, token_text) ==
  [token_type |-> token_type, tag_name |-> tag_name, tag_opts |-> tag_opts,
   token_text |-> token_text]

----------------------------------------------------------------------------
\* The tag registry.

\* TagOptions.__init__: the class attributes, overridden by the keyword arguments
NewTagOptions(tag_name, kwargs) ==
  [f \in DOMAIN DefaultTagOptions(tag_name) |->
     IF f \in DOMAIN kwargs THEN kwargs[f] ELSE DefaultTagOptions(tag_name)[f]]

NoKwargs == [f \in {} |-> FALSE]

\* self.recognized_tags[options.tag_name] = (render_func, options)
Register(recognized_tags, render_func, options) ==
  DictSet(recognized_tags, options.tag_name,
          [render_func |-> render_func, options |-> options])

\* Parser.add_formatter; render_func is kept as the format string of _render
add_formatter(recognized_tags, tag_name, render_func, kwargs) ==
  Register(recognized_tags, render_func, NewTagOptions(Lower(Strip(tag_name)), kwargs))

\* Parser.add_simple_formatter
add_simple_formatter(recognized_tags, tag_name, format, kwargs) ==
  add_formatter(recognized_tags, tag_name, format, kwargs)

\* Parser.install_default_formatters
install_default_formatters(recognized_tags) ==
  LET t1 == add_simple_formatter(recognized_tags, "b", "<strong>%(value)s</strong>", NoKwargs)
      t2 == add_simple_formatter(t1, "i", "<em>%(value)s</em>", NoKwargs)
      t3 == add_simple_formatter(t2, "list", "<ul>%(value)s</ul>", [transform_newlines |-> FALSE])
      t4 == add_simple_formatter(t3, "*", "<li>%(value)s</li>", [newline_closes |-> TRUE])
      t5 == add_simple_formatter(t4, "url", "<a href=\"%(value)s\">%(value)s</a>",
                                 [replace_links |-> FALSE, replace_cosmetic |-> FALSE])
  IN add_simple_formatter(t5, "quote", "<blockquote>%(value)s</blockquote>", NoKwargs)

\* Tags an application registers besides the defaults, one for each flag the
\* defaults leave at its class value.
install_custom_formatters(recognized_tags) ==
  LET t1 == add_simple_formatter(recognized_tags, "code", "<pre>%(value)s</pre>",
                                 [render_embedded |-> FALSE])
      t2 == add_simple_formatter(t1, "raw", "<span>%(value)s</span>", [escape_html |-> FALSE])
  IN add_simple_formatter(t2, "hr", "<hr />", [standalone |-> TRUE])

\* Parser.__init__ (install_defaults=True), followed by the application's tags
NewParser(newline, normalize_newlines, escape_html, replace_links, replace_cosmetic, tag_opener, tag_closer) ==
  [tag_opener |-> tag_opener, tag_closer |-> tag_closer, newline |-> newline,
   normalize_newlines |-> normalize_newlines,
   recognized_tags |-> install_custom_formatters(install_default_formatters(EmptyDict)),
   escape_html |-> escape_html, replace_cosmetic |-> replace_cosmetic,
   replace_links |-> replace_links]

----------------------------------------------------------------------------
\* The tokenizer.

\* Parser._replace: the replacements one after the other (none of them changes
\* the empty string)
RECURSIVE _replace(_, _)
_replace(data, replacements) ==
  IF Len(replacements) = 0 \/ data = "" THEN data
  ELSE _replace(StrReplace(data, Head(replacements)[1], Head(replacements)[2]),
                Tail(replacements))

\* the loop of Parser._newline_tokenize over enumerate(parts), from index num:
\* the tokens it appends
RECURSIVE NewlineTokenizeLoop(_, _)
NewlineTokenizeLoop(parts, num) ==
  IF num >= Len(parts) THEN <<>>
  ELSE (IF parts[num + 1] # "" THEN <<Token(TOKEN_DATA, None, None, parts[num + 1])>>
        ELSE <<>>)
       \o (IF num < Len(parts) - 1 THEN <<Token(TOKEN_NEWLINE, None, None, "\n")>>
           ELSE <<>>)
       \o NewlineTokenizeLoop(parts, num + 1)

\* Parser._newline_tokenize
_newline_tokenize(data) == NewlineTokenizeLoop(Split(data, "\n"), 0)

\* an iteration that would take a double quote in a value for a character like
\* any other, which is not what Parser._parse_opts does
ParseOptsCharUnquoted(st, ch) ==
  IF st.in_value
  THEN IF ch = " "
       THEN [st EXCEPT !.opts = DictSet(@, st.attr, st.value),
                       !.attr = "", !.value = "", !.in_value = FALSE]
       ELSE [st EXCEPT !.value = @ \o ch]
  ELSE IF ch = "="
       THEN [st EXCEPT !.in_value = TRUE,
                       !.name = IF @ = None THEN Some(st.attr) ELSE @]
       ELSE IF ch = " "
            THEN IF st.name = None
                 THEN [st EXCEPT !.name = Some(st.attr), !.attr = ""]
                 ELSE IF st.attr # ""
                      THEN [st EXCEPT !.opts = DictSet(@, st.attr, ""), !.attr = ""]
                      ELSE [st EXCEPT !.attr = ""]
            ELSE [st EXCEPT !.attr = @ \o ch]

\* one iteration of the loop of Parser._parse_opts, up to the test for the
\* last character: the state after character ch
ParseOptsChar(st, ch) ==
  IF st.in_value
  THEN IF st.in_quote
       THEN IF ch = "\"" THEN [st EXCEPT !.in_quote = FALSE]
            ELSE [st EXCEPT !.value = @ \o ch]
       ELSE IF ch = "\"" THEN [st EXCEPT !.in_quote = TRUE]
            ELSE IF ch = " "
                 THEN [st EXCEPT !.opts = DictSet(@, st.attr, st.value),
                                 !.attr = "", !.value = "", !.in_value = FALSE]
                 ELSE [st EXCEPT !.value = @ \o ch]
  ELSE IF ch = "="
       THEN [st EXCEPT !.in_value = TRUE,
                       !.name = IF @ = None THEN Some(st.attr) ELSE @]
       ELSE IF ch = " "
            THEN IF st.name = None
                 THEN [st EXCEPT !.name = Some(st.attr), !.attr = ""]
                 ELSE IF st.attr # ""
                      THEN [st EXCEPT !.opts = DictSet(@, st.attr, ""), !.attr = ""]
                      ELSE [st EXCEPT !.attr = ""]
            ELSE [st EXCEPT !.attr = @ \o ch]

\* the end of an iteration of the loop of Parser._parse_opts: at the last
\* character an attribute still open is stored
ParseOptsLast(st, pos, data) ==
  IF st.attr # "" /\ pos = Len(data) - 1
  THEN [st EXCEPT !.opts = DictSet(@, st.attr, st.value)]
  ELSE st

\* one iteration of the loop of Parser._parse_opts: the state after character ch
\* at position pos of data
ParseOptsStep(st, ch, pos, data) == ParseOptsLast(ParseOptsChar(st, ch), pos, data)

\* the loop of Parser._parse_opts over the positions lo..hi-1 from the state st:
\* the iterations of the first half, then, from the state they end in, those of
\* the second half (the state is a record of the six loop variables)
RECURSIVE ParseOptsLoop(_, _, _, _)
ParseOptsHalf(data, mid, hi, half) ==
  IF half.in_value \in BOOLEAN THEN ParseOptsLoop(data, mid, hi, half) ELSE half

ParseOptsLoop(data, lo, hi, st) ==
  IF hi <= lo THEN st
  ELSE IF hi = lo + 1 THEN ParseOptsStep(st, CharAt(data, lo), lo, data)
  ELSE ParseOptsHalf(data, (lo + hi) \div 2, hi,
                     ParseOptsLoop(data, lo, (lo + hi) \div 2, st))

\* the tuple (name, opts) of the loop's final state
NameAndOpts(st) == [name |-> st.name, opts |-> st.opts]

\* Parser._parse_opts: the tuple (name, opts)
_parse_opts(data) ==
  NameAndOpts(ParseOptsLoop(data, 0, Len(data),
                            [name |-> None, opts |-> EmptyDict, in_value |-> FALSE,
                             in_quote |-> FALSE, attr |-> "", value |-> ""]))

\* the return of Parser._parse_tag for a tag whose options po were parsed
TagWithOpts(po) ==
  [valid |-> TRUE, tag_name |-> Lower(Strip(Get(po.name))), closer |-> FALSE,
   opts |-> Some(po.opts)]

\* Parser._parse_tag from the text between opener and closer, stripped
ParseTagName(tag, tag_name) ==
  IF tag_name = ""
  THEN [valid |-> FALSE, tag_name |-> tag, closer |-> FALSE, opts |-> None]
  ELSE IF CharAt(tag_name, 0) = "/"
  THEN [valid |-> TRUE, tag_name |-> Lower(Strip(Slice(tag_name, 1, Len(tag_name)))),
        closer |-> TRUE, opts |-> None]
  ELSE IF Contains(tag_name, "=") \/ Contains(tag_name, " ")
  THEN TagWithOpts(_parse_opts(tag_name))
  ELSE [valid |-> TRUE, tag_name |-> Lower(Strip(tag_name)), closer |-> FALSE,
        opts |-> None]

\* Parser._parse_tag: the tuple (valid, tag_name, closer, options)
_parse_tag(self, tag) ==
  IF ~StartsWith(tag, self.tag_opener) \/ ~EndsWith(tag, self.tag_closer)
     \/ Contains(tag, "\n") \/ Contains(tag, "\r")
  THEN [valid |-> FALSE, tag_name |-> tag, closer |-> FALSE, opts |-> None]
  ELSE ParseTagName(tag, Strip(Slice(tag, Len(self.tag_opener),
                                     Len(tag) - Len(self.tag_closer))))

\* a tokenizer that would take the end of any valid tag for a TagEnd, registered
\* or not, which is not what Parser.tokenize does
TagTokensAnyEnd(self, tag, pt) ==
  IF pt.valid /\ (pt.closer \/ pt.tag_name \in DOMAIN self.recognized_tags)
  THEN IF pt.closer
       THEN <<Token(TOKEN_TAG_END, Some(pt.tag_name), None, tag)>>
       ELSE <<Token(TOKEN_TAG_START, Some(pt.tag_name), pt.opts, tag)>>
  ELSE _newline_tokenize(tag)

\* the token or tokens Parser.tokenize appends for the bracketed text tag that
\* _parse_tag returned pt for
TagTokensOf(self, tag, pt) ==
  IF pt.valid /\ pt.tag_name \in DOMAIN self.recognized_tags
  THEN IF pt.closer
       THEN <<Token(TOKEN_TAG_END, Some(pt.tag_name), None, tag)>>
       ELSE <<Token(TOKEN_TAG_START, Some(pt.tag_name), pt.opts, tag)>>
  ELSE _newline_tokenize(tag)

TagTokens(self, tag) == TagTokensOf(self, tag, _parse_tag(self, tag))

\* one iteration of the while loop of Parser.tokenize at position pos < len(data)
\* once start, end and new_check are found: the tokens it appends, the position
\* it leaves in pos, and whether it leaves the loop by a break
TokenizeAt(self, data, pos, start, end, new_check) ==
  IF start < pos THEN [tokens |-> <<>>, pos |-> pos, break |-> TRUE]
  ELSE LET before == IF start > pos THEN _newline_tokenize(Slice(data, pos, start))
                     ELSE <<>>
       IN IF new_check > 0 /\ new_check < end
          THEN [tokens |-> before \o _newline_tokenize(Slice(data, start, new_check)),
                pos |-> new_check, break |-> FALSE]
          ELSE IF end > start
          THEN [tokens |-> before
                           \o TagTokens(self, Slice(data, start, end + Len(self.tag_closer))),
                pos |-> end + Len(self.tag_closer), break |-> FALSE]
          ELSE [tokens |-> before, pos |-> pos, break |-> TRUE]

\* the three searches of an iteration, from the start found
TokenizeFrom(self, data, pos, start) ==
  TokenizeAt(self, data, pos, start, Find(data, self.tag_closer, start),
             Find(data, self.tag_opener, start + Len(self.tag_opener)))

TokenizeStep(self, data, pos) ==
  TokenizeFrom(self, data, pos, Find(data, self.tag_opener, pos))

\* the while loop of Parser.tokenize from position pos: the tokens it appends
\* and the position it ends with
RECURSIVE TokenizeLoop(_, _, _)
TokensThen(tokens, rest) == [tokens |-> tokens \o rest.tokens, pos |-> rest.pos]

TokenizeNext(self, data, step) ==
  IF step.break THEN [tokens |-> step.tokens, pos |-> step.pos]
  ELSE TokensThen(step.tokens, TokenizeLoop(self, data, step.pos))

TokenizeLoop(self, data, pos) ==
  IF pos >= Len(data) THEN [tokens |-> <<>>, pos |-> pos]
  ELSE TokenizeNext(self, data, TokenizeStep(self, data, pos))

\* the newline normalization at the head of Parser.tokenize
Normalize(self, data) ==
  IF self.normalize_newlines
  THEN StrReplace(StrReplace(data, "\r\n", "\n"), "\r", "\n")
  ELSE data

\* the end of Parser.tokenize: the text the loop r left behind
TokenizeRest(data, r) ==
  IF r.pos < Len(data) THEN r.tokens \o _newline_tokenize(Slice(data, r.pos, Len(data)))
  ELSE r.tokens

\* Parser.tokenize after the normalization
TokenizeNormalized(self, data) == TokenizeRest(data, TokenizeLoop(self, data, 0))

\* Parser.tokenize
tokenize(self, data) == TokenizeNormalized(self, Normalize(self, data))

----------------------------------------------------------------------------
\* The text transform.

CharsOf(s) == {CharAt(s, i) : i \in 0..(Len(s) - 1)}

\* the character classes of _url_re, which is compiled with (?i)
Letters == CharsOf(LowerCase) \cup CharsOf(UpperCase)
Digits == CharsOf("0123456789")
\* \w
WordChars == Letters \cup Digits \cup {"_"}
\* [^\s()<>]
UrlBodyChar(c) == c \notin Whitespace \cup {"(", ")", "<", ">"}
\* the last class of _url_re, [^\s!()\[\]{};:'".,<>?] and the grave accent; a TLA+
\* string cannot hold a grave accent, so no text of the model contains one
UrlTailChar(c) ==
  c \notin Whitespace \cup {"!", "(", ")", "[", "]", "{", "}", ";", ":", "'", "\"",
                           ".", ",", "<", ">", "?"}

\* the end of the longest run from position i of characters that In holds of
RunEnd(text, i, In(_)) ==
  IF i >= Len(text) THEN i
  ELSE Min({j \in i..Len(text) : j = Len(text) \/ ~In(CharAt(text, j))})

IsWordOrDash(c) == c \in WordChars \cup {"-"}
IsDigit(c) == c \in Digits
IsDomainChar(c) == c \in Letters \cup Digits \cup {".", "-"}

\* \(([^\s()<>]+|(\([^\s()<>]+\)))*\) with i inside the outer parentheses:
\* the position after the closing parenthesis, or -1.  UrlInnerGroup is given
\* the end j of the run after an inner opening parenthesis at i.
RECURSIVE UrlGroupScan(_, _)
UrlInnerGroup(text, i, j) ==
  IF j > i + 1 /\ j < Len(text) /\ CharAt(text, j) = ")"
  THEN UrlGroupScan(text, j + 1) ELSE -1

UrlGroupScan(text, i) ==
  IF i >= Len(text) THEN -1
  ELSE IF CharAt(text, i) = ")" THEN i + 1
  ELSE IF UrlBodyChar(CharAt(text, i)) THEN UrlGroupScan(text, RunEnd(text, i, UrlBodyChar))
  ELSE IF CharAt(text, i) = "(" THEN UrlInnerGroup(text, i, RunEnd(text, i + 1, UrlBodyChar))
  ELSE -1

\* (?:[^\s()<>]+|\(...\))+(?:\(...\)|<last class>) from position
\* pos: the end of the match the greedy search settles on, or best if there is
\* none; have says that the first group has matched at least once.  UrlWalkRun
\* is given the end r of the run of body characters at pos, UrlWalkGroup the
\* end g of the parenthesized group at pos.
RECURSIVE UrlWalk(_, _, _, _)
UrlLastTail(tails, best) == IF tails = {} THEN best ELSE Max(tails) + 1

UrlWalkRun(text, pos, have, best, r) ==
  UrlWalk(text, r, TRUE,
          UrlLastTail({j \in pos..(r - 1) :
                         UrlTailChar(CharAt(text, j)) /\ (have \/ j > pos)}, best))

UrlWalkGroup(text, have, best, g) ==
  IF g < 0 THEN best ELSE UrlWalk(text, g, TRUE, IF have THEN g ELSE best)

UrlWalk(text, pos, have, best) ==
  IF pos >= Len(text) THEN best
  ELSE IF UrlBodyChar(CharAt(text, pos))
  THEN UrlWalkRun(text, pos, have, best, RunEnd(text, pos, UrlBodyChar))
  ELSE IF CharAt(text, pos) = "("
  THEN UrlWalkGroup(text, have, best, UrlGroupScan(text, pos + 1))
  ELSE best

\* [a-z][\w-]+:(?:/{1,3}|[a-z0-9%]) matched at s, r the end of the run of [\w-]
\* from s+1: the ends of the match
UrlSchemeEnds(text, s, r) ==
  IF /\ CharAt(text, s) \in Letters
     /\ r > s + 1
     /\ r + 1 < Len(text)
     /\ CharAt(text, r) = ":"
     /\ CharAt(text, r + 1) \in Letters \cup Digits \cup {"/", "%"}
  THEN {r + 2} ELSE {}

\* www\d{0,3}[.] matched at s, d the end of the run of digits from s+3
UrlWwwEnds(text, s, d) ==
  IF /\ s + 3 <= Len(text)
     /\ Lower(Slice(text, s, s + 3)) = "www"
     /\ d - (s + 3) <= 3
     /\ d < Len(text)
     /\ CharAt(text, d) = "."
  THEN {d + 1} ELSE {}

\* [a-z0-9.\-]+[.][a-z]{2,4}/ matched at s, e the end of the run of [a-z0-9.\-]
UrlDomainEnds(text, s, e) ==
  IF /\ e < Len(text)
     /\ CharAt(text, e) = "/"
     /\ \E k \in 2..4 :
          /\ e - k - 1 > s
          /\ CharAt(text, e - k - 1) = "."
          /\ \A i \in (e - k)..(e - 1) : CharAt(text, i) \in Letters
  THEN {e + 1} ELSE {}

\* the ends of the first group of _url_re matched at s
UrlPrefixEnds(text, s) ==
  UrlSchemeEnds(text, s, RunEnd(text, s + 1, IsWordOrDash))
    \cup UrlWwwEnds(text, s, RunEnd(text, s + 3, IsDigit))
    \cup UrlDomainEnds(text, s, RunEnd(text, s, IsDomainChar))

\* \b at position s
WordBoundary(text, s) ==
  (s > 0 /\ CharAt(text, s - 1) \in WordChars) # (s < Len(text) /\ CharAt(text, s) \in WordChars)

\* the rest of _url_re after the first group, which ends at one of ends
UrlWalkFrom(text, ends) == IF ends = {} THEN -1 ELSE UrlWalk(text, Min(ends), FALSE, -1)

\* the end of the match of _url_re at s, or -1
UrlMatchEnd(text, s) ==
  IF WordBoundary(text, s) THEN UrlWalkFrom(text, UrlPrefixEnds(text, s)) ELSE -1

\* _url_re.sub( r'<a href="\1">\1</a>', text ) from position s.  UrlSubAt is
\* given the start p of the first match from s, -1 if there is none, UrlAnchor
\* also its end e.
RECURSIVE UrlSubFrom(_, _)
UrlAnchor(text, s, p, e) ==
  Slice(text, s, p) \o "<a href=\"" \o Slice(text, p, e) \o "\">"
    \o Slice(text, p, e) \o "</a>" \o UrlSubFrom(text, e)

UrlSubAt(text, s, p) ==
  IF p < 0 THEN Slice(text, s, Len(text)) ELSE UrlAnchor(text, s, p, UrlMatchEnd(text, p))

UrlSubFrom(text, s) ==
  UrlSubAt(text, s, MinOr({p \in s..(Len(text) - 1) : UrlMatchEnd(text, p) >= 0}, -1))

UrlSub(text) == UrlSubFrom(text, 0)

\* the three steps of Parser._transform; each is taken when the parser's own
\* flag and the flag passed in are both set
TransformEscape(self, data, escape_html) ==
  IF self.escape_html /\ escape_html THEN _replace(data, REPLACE_ESCAPE) ELSE data

TransformCosmetic(self, data, replace_cosmetic) ==
  IF self.replace_cosmetic /\ replace_cosmetic THEN _replace(data, REPLACE_COSMETIC)
  ELSE data

TransformLinks(self, data, replace_links) ==
  IF self.replace_links /\ replace_links THEN UrlSub(data) ELSE data

\* a transform that would go by the flags of the tag alone, whatever the flags
\* of the parser, which is not what Parser._transform does
TransformByTagFlags(self, data, escape_html, replace_links, replace_cosmetic) ==
  TransformLinks([self EXCEPT !.replace_links = TRUE],
                 TransformCosmetic([self EXCEPT !.replace_cosmetic = TRUE],
                                   TransformEscape([self EXCEPT !.escape_html = TRUE],
                                                   data, escape_html),
                                   replace_cosmetic),
                 replace_links)

\* Parser._transform
_transform(self, data, escape_html, replace_links, replace_cosmetic) ==
  TransformLinks(self,
                 TransformCosmetic(self, TransformEscape(self, data, escape_html),
                                   replace_cosmetic),
                 replace_links)

----------------------------------------------------------------------------
\* The closing-token matcher and the renderer.

\* a matcher that would stop at the first end of the tag's name, whatever the
\* nesting, which is not what Parser._find_closing_token does
RECURSIVE FindFirstEnd(_, _, _, _)
FindFirstEnd(tag, tokens, pos, embed_count) ==
  IF pos >= Len(tokens) THEN pos
  ELSE IF tokens[pos + 1].token_type = TOKEN_NEWLINE /\ tag.newline_closes THEN pos
  ELSE IF tokens[pos + 1].token_type = TOKEN_TAG_END
          /\ Get(tokens[pos + 1].tag_name) = tag.tag_name
  THEN pos
  ELSE FindFirstEnd(tag, tokens, pos + 1, embed_count)

\* the while loop of Parser._find_closing_token from position pos
RECURSIVE FindClosingLoop(_, _, _, _)
FindClosingLoop(tag, tokens, pos, embed_count) ==
  IF pos >= Len(tokens) THEN pos
  ELSE LET t == tokens[pos + 1] IN
       IF t.token_type = TOKEN_NEWLINE /\ tag.newline_closes THEN pos
       ELSE IF t.token_type = TOKEN_TAG_START /\ Get(t.tag_name) = tag.tag_name
            THEN FindClosingLoop(tag, tokens, pos + 1, embed_count + 1)
            ELSE IF t.token_type = TOKEN_TAG_END /\ Get(t.tag_name) = tag.tag_name
                 THEN IF embed_count > 0
                      THEN FindClosingLoop(tag, tokens, pos + 1, embed_count - 1)
                      ELSE pos
                 ELSE FindClosingLoop(tag, tokens, pos + 1, embed_count)

\* a matcher that would leave the last token out of a tag that nothing closes,
\* which is not what Parser._find_closing_token does
FindClosingTokenShort(tag, tokens, pos) ==
  IF FindClosingLoop(tag, tokens, pos, 0) >= Len(tokens) /\ Len(tokens) > pos
  THEN Len(tokens) - 1
  ELSE FindClosingLoop(tag, tokens, pos, 0)

\* Parser._find_closing_token
_find_closing_token(tag, tokens, pos) == FindClosingLoop(tag, tokens, pos, 0)

\* str(value) as the %s conversion prints it
Str(value) == IF value = None THEN "None" ELSE Get(value)

\* _render of Parser.add_simple_formatter: format % fmt, where fmt is the
\* options updated with {'value': value}; the formats of the registry use the
\* key value only
_render(format, value, options, context, parent) ==
  StrReplace(format, "%(value)s", Str(value))

\* The renderer's log of a call of a render function: the tag whose function it
\* is, the four arguments, and where the call was made: start and end are the
\* positions of the TagStart token and of its closing token in the token list
\* given to format (end = start for a standalone tag), stop is the end of the
\* slice the tag was found in.
Call(tag, a, start, end, stop) ==
  [tag_name |-> tag.tag_name, value |-> a.value, options |-> a.options,
   context |-> a.context, parent |-> a.parent, start |-> start, end |-> end, stop |-> stop]

\* a call that would hand the render function its own tag as fourth argument,
\* which is not what Parser._format_tokens does
RenderArgsOwnSpec(tag, t, value, context, parent) ==
  [value |-> value, options |-> t.tag_opts, context |-> context, parent |-> Some(tag)]

\* the arguments of render_func( inner, tag_opts, context, parent ) in
\* Parser._format_tokens, for the token t of tag inside parent
RenderArgs(tag, t, value, context, parent) ==
  [value |-> value, options |-> t.tag_opts, context |-> context, parent |-> parent]

\* formatted += render_func( ... ) with the arguments a, after the calls made
\* for the content: what the iteration appends, the log of its calls, and the
\* index next it leaves in idx
Rendered(entry, a, made, start, end, stop, next) ==
  [calls |-> Append(made, Call(entry.options, a, start, end, stop)),
   formatted |-> _render(entry.render_func, a.value, a.options, a.context, a.parent),
   idx |-> next]

\* [t[3] for t in subtokens]
TokenTexts(tokens) == [i \in 1..Len(tokens) |-> tokens[i].token_text]

\* what Parser._format_tokens appends for a Newline token
FormatNewline(self, t, parent) ==
  IF parent = None \/ Get(parent).transform_newlines THEN self.newline ELSE t.token_text

\* what Parser._format_tokens appends for a Data token
FormatData(self, t, parent) ==
  _transform(self, t.token_text,
             IF parent = None THEN self.escape_html ELSE Get(parent).escape_html,
             IF parent = None THEN self.replace_links ELSE Get(parent).replace_links,
             IF parent = None THEN self.replace_cosmetic ELSE Get(parent).replace_cosmetic)

\* if tag.transform_newlines: inner = inner.replace( '\n', self.newline )
PlainNewlines(self, tag, inner) ==
  IF tag.transform_newlines THEN StrReplace(inner, "\n", self.newline) ELSE inner

\* the content of a tag that does not render embedded tags
PlainInner(self, tag, subtokens) ==
  PlainNewlines(self, tag, _transform(self, Join(TokenTexts(subtokens)), tag.escape_html,
                                      tag.replace_links, tag.replace_cosmetic))

\* Parser._format_tokens.  Its result is the string formatted and the log of the
\* calls of render functions, in the order made; base is the position of
\* tokens[0] in the token list given to format, kept for the log only.
RECURSIVE _format_tokens(_, _, _, _, _)

\* the iteration for the TagStart token at idx of a standalone tag
FormatStandalone(tokens, context, parent, base, idx, entry) ==
  Rendered(entry, RenderArgs(entry.options, tokens[idx + 1], None, context, parent), <<>>,
           base + idx, base + idx, base + Len(tokens), idx + 1)

\* inner for the tag at idx closed at end, with the calls made for it
FormatContent(self, tokens, context, base, idx, tag, end) ==
  IF tag.render_embedded
  THEN _format_tokens(self, SubSeq(tokens, idx + 2, end), context, Some(tag), base + idx + 1)
  ELSE [formatted |-> PlainInner(self, tag, SubSeq(tokens, idx + 2, end)), calls |-> <<>>]

\* the iteration for the TagStart token at idx of a tag closed at end, whose
\* content is sub
FormatEnclosed(tokens, context, parent, base, idx, entry, end, sub) ==
  Rendered(entry,
           RenderArgs(entry.options, tokens[idx + 1], Some(sub.formatted), context, parent),
           sub.calls, base + idx, base + end, base + Len(tokens), end + 1)

FormatOpen(self, tokens, context, parent, base, idx, entry, end) ==
  FormatEnclosed(tokens, context, parent, base, idx, entry, end,
                 FormatContent(self, tokens, context, base, idx, entry.options, end))

\* the iteration for a TagStart token at idx; entry is the pair
\* (render_func, tag) of self.recognized_tags
FormatTag(self, tokens, context, parent, base, idx, entry) ==
  IF entry.options.standalone
  THEN FormatStandalone(tokens, context, parent, base, idx, entry)
  ELSE FormatOpen(self, tokens, context, parent, base, idx, entry,
                  _find_closing_token(entry.options, tokens, idx + 1))

\* an iteration that would pass the text of a TagEnd token through, which is not
\* what Parser._format_tokens does
FormatStepKeepingEnd(self, tokens, context, parent, base, idx) ==
  IF tokens[idx + 1].token_type = TOKEN_TAG_START
  THEN FormatTag(self, tokens, context, parent, base, idx,
                 self.recognized_tags[Get(tokens[idx + 1].tag_name)])
  ELSE IF tokens[idx + 1].token_type = TOKEN_NEWLINE
  THEN [formatted |-> FormatNewline(self, tokens[idx + 1], parent), calls |-> <<>>,
        idx |-> idx + 1]
  ELSE IF tokens[idx + 1].token_type = TOKEN_DATA
  THEN [formatted |-> FormatData(self, tokens[idx + 1], parent), calls |-> <<>>,
        idx |-> idx + 1]
  ELSE [formatted |-> tokens[idx + 1].token_text, calls |-> <<>>, idx |-> idx + 1]

\* one iteration of the while loop of Parser._format_tokens at index
\* idx < len(tokens): the string the iteration appends to formatted, the calls
\* of render functions it makes, and the index it leaves in idx
FormatStep(self, tokens, context, parent, base, idx) ==
  LET t == tokens[idx + 1]
  IN IF t.token_type = TOKEN_TAG_START
     THEN FormatTag(self, tokens, context, parent, base, idx,
                    self.recognized_tags[Get(t.tag_name)])
     ELSE IF t.token_type = TOKEN_NEWLINE
     THEN [formatted |-> FormatNewline(self, t, parent), calls |-> <<>>, idx |-> idx + 1]
     ELSE IF t.token_type = TOKEN_DATA
     THEN [formatted |-> FormatData(self, t, parent), calls |-> <<>>, idx |-> idx + 1]
     ELSE [formatted |-> "", calls |-> <<>>, idx |-> idx + 1]

\* the while loop of Parser._format_tokens from index idx
RECURSIVE FormatLoop(_, _, _, _, _, _)
FormatThen(step, rest) ==
  [formatted |-> step.formatted \o rest.formatted, calls |-> step.calls \o rest.calls]

FormatNext(self, tokens, context, parent, base, step) ==
  FormatThen(step, FormatLoop(self, tokens, context, parent, base, step.idx))

FormatLoop(self, tokens, context, parent, base, idx) ==
  IF idx >= Len(tokens) THEN [formatted |-> "", calls |-> <<>>]
  ELSE FormatNext(self, tokens, context, parent, base,
                  FormatStep(self, tokens, context, parent, base, idx))

_format_tokens(self, tokens, context, parent, base) ==
  FormatLoop(self, tokens, context, parent, base, 0)

\* Parser.format, with the log of the calls it made
format(self, data, context) == _format_tokens(self, tokenize(self, data), context, None, 0)

\* the loop of Parser.strip over the tokens from index idx: the texts it appends
RECURSIVE StripLoop(_, _, _)
StripLoop(tokens, strip_newlines, idx) ==
  IF idx >= Len(tokens) THEN <<>>
  ELSE LET t == tokens[idx + 1]
       IN (IF t.token_type = TOKEN_DATA THEN <<t.token_text>>
           ELSE IF t.token_type = TOKEN_NEWLINE /\ ~strip_newlines THEN <<t.token_text>>
           ELSE <<>>)
          \o StripLoop(tokens, strip_newlines, idx + 1)

\* a strip that would keep the newlines whatever strip_newlines, which is not
\* what Parser.strip does
StripKeepingNewlines(self, data, strip_newlines) ==
  Join(StripLoop(tokenize(self, data), FALSE, 0))

\* Parser.strip
strip(self, data, strip_newlines) == Join(StripLoop(tokenize(self, data), strip_newlines, 0))

----------------------------------------------------------------------------
\* The inputs.

\* the strings put together from at most n of the fragments
RECURSIVE Concats(_, _)
Concats(fragments, n) ==
  IF n = 0 THEN {""}
  ELSE LET shorter == Concats(fragments, n - 1)
       IN shorter \cup {s \o f : s \in shorter, f \in fragments}

\* the inputs the specification's examples and the parser's documentation name
Examples ==
  {"[b]hi[/b]", "[list][*]a[*]b[/list]", "[foo]x[/foo]", "[b]bold", "5 -- 10 < 20",
   "[b]hi[/b]\nthere", "[b][b]x[/b]y[/b]", "[i][b]x[/i]y[/b]", "x[/b]y",
   "[quote author=\"D W\"]q[/quote]"}

\* openers, closers and text alone, registered, unregistered and padded tags
Fragments == {"[", "]", "b", "\n", "\r", "[b]", "[/b]", "[ B]", "[x]", "[*]"}

Inputs == Concats(Fragments, MaxFrags) \cup Examples

\* tags of every kind of the registry, a line break, and text that each of
\* the three transforms changes
FormatFragments ==
  {"[b]", "[/b]", "[*]", "\n", "[code]", "[raw]", "[url]", "[hr]", "<-- www.a.bc"}

FormatInputs == Concats(FormatFragments, MaxFormatFrags) \cup Examples

\* the texts Parser._parse_tag hands to _parse_opts: stripped, holding an equal
\* sign or a space, and not starting with a slash
OptInputs ==
  {s \in Concats({"a", "b", "=", " ", "\""}, MaxOptLen) :
     /\ Strip(s) = s
     /\ Contains(s, "=") \/ Contains(s, " ")}

\* the user-defined context passed into format
Contexts == {"ctx"}

DefaultParser(normalize_newlines) ==
  NewParser("<br />", normalize_newlines, TRUE, TRUE, TRUE, "[", "]")

----------------------------------------------------------------------------
\* The state machine: a parser is constructed and one of its methods is called
\* on an input; ret is None until the method has returned.

Init ==
  /\ parser \in {DefaultParser(n) : n \in BOOLEAN}
  /\ op = "init"
  /\ args \in {[data |-> d] : d \in Inputs}
  /\ ret = None

InitFormat ==
  /\ parser \in {NewParser("<br />", TRUE, e, l, c, "[", "]") : e \in BOOLEAN, l \in BOOLEAN, c \in BOOLEAN}
  /\ op = "init"
  /\ args \in {[data |-> d] : d \in FormatInputs}
  /\ ret = None

InitOpts ==
  /\ parser = DefaultParser(TRUE)
  /\ op = "init"
  /\ args \in {[data |-> d] : d \in OptInputs}
  /\ ret = None

\* Parser.tokenize( data )
Tokenize ==
  /\ op = "init"
  /\ op' = "tokenize"
  /\ ret' = Some(tokenize(parser, args.data))
  /\ UNCHANGED <<parser, args>>

\* Parser.format( data, context )
Format ==
  /\ op = "init"
  /\ \E context \in Contexts :
       /\ args' = [data |-> args.data, context |-> context]
       /\ ret' = Some(format(parser, args.data, context))
  /\ op' = "format"
  /\ UNCHANGED parser

\* Parser.strip( data, strip_newlines )
StripText ==
  /\ op = "init"
  /\ \E strip_newlines \in BOOLEAN :
       /\ args' = [data |-> args.data, strip_newlines |-> strip_newlines]
       /\ ret' = Some(strip(parser, args.data, strip_newlines))
  /\ op' = "strip"
  /\ UNCHANGED parser

\* the tokens of a non-standalone registered tag's start, where the renderer
\* calls the matcher
IsOpenTag(self, t) ==
  t.token_type = TOKEN_TAG_START /\ ~self.recognized_tags[Get(t.tag_name)].options.standalone

\* Parser._find_closing_token( tag, tokens, idx+1 ) as Parser._format_tokens
\* calls it for the TagStart token at idx of tokens
FindClosingTokenIn(tokens) ==
  \E idx \in 0..(Len(tokens) - 1) :
    /\ IsOpenTag(parser, tokens[idx + 1])
    /\ args' = [data |-> args.data,
                tag |-> parser.recognized_tags[Get(tokens[idx + 1].tag_name)].options,
                tokens |-> tokens, pos |-> idx + 1]
    /\ ret' = Some(_find_closing_token(args'.tag, tokens, idx + 1))

FindClosingToken ==
  /\ op = "init"
  /\ FindClosingTokenIn(tokenize(parser, args.data))
  /\ op' = "_find_closing_token"
  /\ UNCHANGED parser

\* Parser._parse_opts( data )
ParseOpts ==
  /\ op = "init"
  /\ op' = "_parse_opts"
  /\ ret' = Some(_parse_opts(args.data))
  /\ UNCHANGED <<parser, args>>

Next == Tokenize \/ Format \/ StripText \/ FindClosingToken

NextFormat == Format

NextOpts == ParseOpts

\* every method on the inputs put together from Fragments, with and without
\* newline normalization
Spec == Init /\ [][Next]_vars

\* format under every setting of the parser's three flags
SpecFormat == InitFormat /\ [][NextFormat]_vars

\* the option parser
SpecOpts == InitOpts /\ [][NextOpts]_vars

----------------------------------------------------------------------------
\* What the properties below speak of.

\* the tokens of the input of the call made
Tokens == tokenize(parser, args.data)

\* the indices (0-based) of a token list
Indices(tokens) == 0..(Len(tokens) - 1)

IsTag(t) == t.token_type \in {TOKEN_TAG_START, TOKEN_TAG_END}

\* the entry of the registry a logged call was made for
TagOf(c) == parser.recognized_tags[c.tag_name].options

\* the calls whose tag's span, from its TagStart to its closing token, holds
\* the token at k after the TagStart
Enclosing(calls, k) ==
  {i \in 1..Len(calls) : calls[i].start < k /\ k <= calls[i].end}

\* the innermost of them: the one that starts last
Innermost(calls, k) ==
  CHOOSE i \in Enclosing(calls, k) : \A j \in Enclosing(calls, k) : calls[j].start <= calls[i].start

\* the parent the renderer is in at token k: the tag of the innermost call
\* that encloses it, None at the top level
ParentAt(calls, k) ==
  IF Enclosing(calls, k) = {} THEN None ELSE Some(TagOf(calls[Innermost(calls, k)]))

\* the token at k lies in the content of a tag that does not render embedded
\* tags
InsidePlain(calls, k) ==
  \E i \in Enclosing(calls, k) : k < calls[i].end /\ ~TagOf(calls[i]).render_embedded

\* p closes the tag whose content starts at pos: a Newline when the tag has
\* newline_closes, or an end of the tag's name with as many starts as ends of
\* that name in tokens[pos..p-1]
SameName(tag, t, type) == t.token_type = type /\ Get(t.tag_name) = tag.tag_name

Closes(tag, tokens, pos, p) ==
  \/ tokens[p + 1].token_type = TOKEN_NEWLINE /\ tag.newline_closes
  \/ /\ SameName(tag, tokens[p + 1], TOKEN_TAG_END)
     /\ Cardinality({q \in pos..(p - 1) : SameName(tag, tokens[q + 1], TOKEN_TAG_START)})
        = Cardinality({q \in pos..(p - 1) : SameName(tag, tokens[q + 1], TOKEN_TAG_END)})

\* the content the renderer hands to the render function of the tag of call c
ContentOf(tokens, c) ==
  IF TagOf(c).standalone THEN None
  ELSE IF TagOf(c).render_embedded
  THEN Some(_format_tokens(parser, SubSeq(tokens, c.start + 2, c.end), c.context,
                           Some(TagOf(c)), c.start + 1).formatted)
  ELSE Some(PlainInner(parser, TagOf(c), SubSeq(tokens, c.start + 2, c.end)))

----------------------------------------------------------------------------
\* C1: for every input, the texts of the tokens tokenize returns, put together
\* in order, are the input after the CRLF/CR -> LF normalization: no character
\* is dropped and none is emitted twice.
C1_TokenTextsReproduceInput ==
  op = "tokenize" => Join(TokenTexts(Get(ret))) = Normalize(parser, args.data)

\* C2: with the default tags, format("[list][*]a[*]b[/list]") returns
\* "<ul><li>a</li><li>b</li></ul>": the items are siblings, never nested.
C2_ListItemsAreSiblings ==
  (op = "format" /\ args.data = "[list][*]a[*]b[/list]")
    => Get(ret).formatted = "<ul><li>a</li><li>b</li></ul>"

\* C3, as the source has it: for a TagStart, format calls the tag's render
\* function with the inner content (None for a standalone tag), the options of
\* the TagStart token, the user context, and as fourth argument the options of
\* the tag the TagStart is rendered inside, None at the top level; what the call
\* returns is appended to the output and the loop goes on after the closing
\* token.
C3_RenderCallArguments ==
  op = "format" =>
    \A i \in 1..Len(Get(ret).calls) :
      LET c == Get(ret).calls[i]
      IN /\ SameName(TagOf(c), Tokens[c.start + 1], TOKEN_TAG_START)
         /\ c.value = ContentOf(Tokens, c)
         /\ c.options = Tokens[c.start + 1].tag_opts
         /\ c.context = args.context
         /\ c.parent = ParentAt(Get(ret).calls, c.start)
         /\ c.parent = None =>
              FormatLoop(parser, Tokens, args.context, None, 0, c.start).formatted
                = _render(parser.recognized_tags[c.tag_name].render_func, c.value,
                          c.options, c.context, c.parent)
                  \o FormatLoop(parser, Tokens, args.context, None, 0, c.end + 1).formatted

\* C3 as stated: the fourth argument of every call is the tag's own options.
C3_FourthArgumentIsOwnSpec ==
  op = "format" =>
    \A i \in 1..Len(Get(ret).calls) :
      Get(ret).calls[i].parent = Some(TagOf(Get(ret).calls[i]))

\* a tag rendered inside a tag of another name, and a tag at the top level
C3_Witness ==
  /\ op = "format"
  /\ \E i \in 1..Len(Get(ret).calls) :
       /\ Get(ret).calls[i].parent # None
       /\ Get(Get(ret).calls[i].parent).tag_name # Get(ret).calls[i].tag_name
  /\ \E i \in 1..Len(Get(ret).calls) : Get(ret).calls[i].parent = None

\* the tag starts the renderer comes to: those outside the content of a tag
\* that does not render embedded tags
RenderedStarts(tokens, calls) ==
  {k \in Indices(tokens) :
     tokens[k + 1].token_type = TOKEN_TAG_START /\ ~InsidePlain(calls, k)}

\* C4: a registered tag that is not standalone and whose start has no matching
\* close in the token slice it is in is closed at the end of that slice: the
\* tokens that remain are its content, its render function is called exactly
\* once, with that content, and format returns: format("[b]bold") is
\* "<strong>bold</strong>".
C4_ImplicitCloseAtEndOfSlice ==
  op = "format" =>
    /\ \A k \in RenderedStarts(Tokens, Get(ret).calls) :
         Cardinality({i \in 1..Len(Get(ret).calls) : Get(ret).calls[i].start = k}) = 1
    /\ \A i \in 1..Len(Get(ret).calls) :
         LET c == Get(ret).calls[i]
         IN (/\ ~TagOf(c).standalone
             /\ \A p \in (c.start + 1)..(c.stop - 1) : ~Closes(TagOf(c), Tokens, c.start + 1, p))
            => /\ c.end = c.stop
               /\ c.value = ContentOf(Tokens, [c EXCEPT !.end = c.stop])
    /\ args.data = "[b]bold" => Get(ret).formatted = "<strong>bold</strong>"

\* a tag closed at the end of the input, with content
C4_Witness ==
  /\ op = "format"
  /\ \E i \in 1..Len(Get(ret).calls) :
       /\ Get(ret).calls[i].end = Len(Tokens)
       /\ Get(ret).calls[i].value \notin {None, Some("")}

\* every opener of the text has a closer after it
NoOpenerLeftOpen(self, data) ==
  \A i \in 0..(Len(data) - 1) :
    CharAt(data, i) = self.tag_opener
      => \E j \in (i + 1)..(Len(data) - 1) : CharAt(data, j) = self.tag_closer

\* the name a bracketed text without options stands for: what is between the
\* brackets, trimmed, without the slash of a closer, trimmed, in lower case
NameIn(text) ==
  LET inner == Strip(Slice(text, 1, Len(text) - 1))
  IN Lower(Strip(IF StartsWith(inner, "/") THEN Slice(inner, 1, Len(inner)) ELSE inner))

\* C5: a token of tokenize is a TagStart or TagEnd only if its text parses as a
\* valid tag whose trimmed name, in lower case, is registered; all other
\* bracketed text is in the Data and Newline tokens, as it stands (where every
\* opener has a closer, the texts of the tokens put together are the input), so
\* format("[foo]x[/foo]") returns "[foo]x[/foo]".
C5_OnlyRegisteredTagsBecomeTagTokens ==
  /\ op = "tokenize" =>
       /\ \A k \in Indices(Get(ret)) :
            LET t == Get(ret)[k + 1]
            IN IF IsTag(t)
               THEN /\ _parse_tag(parser, t.token_text).valid
                    /\ _parse_tag(parser, t.token_text).tag_name = Get(t.tag_name)
                    /\ _parse_tag(parser, t.token_text).closer = (t.token_type = TOKEN_TAG_END)
                    /\ Get(t.tag_name) \in DOMAIN parser.recognized_tags
                    /\ t.tag_opts = None => Get(t.tag_name) = NameIn(t.token_text)
               ELSE /\ t.tag_name = None
                    /\ (t.token_type = TOKEN_NEWLINE) = (t.token_text = "\n")
                    /\ t.token_type = TOKEN_DATA => ~Contains(t.token_text, "\n")
       /\ NoOpenerLeftOpen(parser, Normalize(parser, args.data))
            => Join(TokenTexts(Get(ret))) = Normalize(parser, args.data)
  /\ (op = "format" /\ args.data = "[foo]x[/foo]") => Get(ret).formatted = "[foo]x[/foo]"

\* the text of an unregistered tag in a Data token, beside a TagStart token
C5_Witness ==
  /\ op = "tokenize"
  /\ \E k \in Indices(Get(ret)) :
       Get(ret)[k + 1].token_type = TOKEN_DATA /\ Get(ret)[k + 1].token_text = "[x]"
  /\ \E k \in Indices(Get(ret)) : Get(ret)[k + 1].token_type = TOKEN_TAG_START

\* the tokens strip keeps
Kept(tokens, strip_newlines) ==
  LET Keep(t) == \/ t.token_type = TOKEN_DATA
                 \/ t.token_type = TOKEN_NEWLINE /\ ~strip_newlines
  IN SelectSeq(tokens, Keep)

\* C6: strip returns the texts, in order, of the Data tokens of the input's
\* tokens, and of the Newline tokens unless strip_newlines is set, and the text
\* of no TagStart or TagEnd token: strip("[b]hi[/b]\nthere") is "hi\nthere", and
\* "hithere" with strip_newlines.
C6_StripKeepsDataAndNewlines ==
  op = "strip" =>
    /\ Get(ret) = Join(TokenTexts(Kept(Tokens, args.strip_newlines)))
    /\ args.data = "[b]hi[/b]\nthere"
         => Get(ret) = IF args.strip_newlines THEN "hithere" ELSE "hi\nthere"

\* the example, newlines stripped
C6_Witness ==
  /\ op = "strip"
  /\ args.data = "[b]hi[/b]\nthere"
  /\ args.strip_newlines
  /\ Get(ret) = "hithere"

\* C7: _find_closing_token(tag, tokens, pos) returns the least p >= pos that
\* closes the tag (a Newline when the tag has newline_closes, whatever the
\* nesting, or a TagEnd of the tag's name with as many starts as ends of that
\* name in tokens[pos..p-1]), and len(tokens) if there is none; in
\* "[b][b]x[/b]y[/b]" the outer start matches the last end.
C7_FindClosingTokenIsLeastClose ==
  op = "_find_closing_token" =>
    /\ Get(ret) = MinOr({p \in args.pos..(Len(args.tokens) - 1) :
                           Closes(args.tag, args.tokens, args.pos, p)},
                        Len(args.tokens))
    /\ (args.data = "[b][b]x[/b]y[/b]" /\ args.pos = 1) => Get(ret) = 5

\* the outer start of the example, matched with the last end
C7_Witness ==
  /\ op = "_find_closing_token"
  /\ args.data = "[b][b]x[/b]y[/b]"
  /\ args.pos = 1
  /\ Get(ret) = 5

\* The three transformations in the order Parser._transform applies them, each
\* applied or not.
Applied(data, escape, cosmetic, links) ==
  LET escaped == IF escape THEN _replace(data, REPLACE_ESCAPE) ELSE data
      cosmetics == IF cosmetic THEN _replace(escaped, REPLACE_COSMETIC) ELSE escaped
  IN IF links THEN UrlSub(cosmetics) ELSE cosmetics

\* the tokens between the TagStart of call c and its closing token
Content(tokens, c) == SubSeq(tokens, c.start + 2, c.end)

AllData(tokens) == \A i \in 1..Len(tokens) : tokens[i].token_type = TOKEN_DATA

\* the content of call c, all Data tokens, transformed by the flags e, k and l:
\* token by token where the tag renders embedded tags, as one text where not
TransformedContent(tokens, c, e, k, l) ==
  IF TagOf(c).render_embedded
  THEN Join([i \in 1..Len(Content(tokens, c)) |->
               Applied(Content(tokens, c)[i].token_text, e, k, l)])
  ELSE Applied(Join(TokenTexts(Content(tokens, c))), e, k, l)

\* C8, as the source has it: Data rendered inside a tag gets each of the
\* transformations (HTML escaping, cosmetic replacement, link replacement) when
\* the flag of the parser and the flag of the enclosing tag are both set, and
\* Data at the top level gets those the parser's flags set; with escape_html off
\* in the parser, Data inside a tag with escape_html on is not escaped.
C8_TransformsNeedParserAndTagFlags ==
  op = "format" =>
    /\ \A i \in 1..Len(Get(ret).calls) :
         LET c == Get(ret).calls[i]
         IN (~TagOf(c).standalone /\ AllData(Content(Tokens, c)))
            => c.value = Some(TransformedContent(Tokens, c,
                                parser.escape_html /\ TagOf(c).escape_html,
                                parser.replace_cosmetic /\ TagOf(c).replace_cosmetic,
                                parser.replace_links /\ TagOf(c).replace_links))
    /\ AllData(Tokens)
         => Get(ret).formatted
              = Join([i \in 1..Len(Tokens) |->
                        Applied(Tokens[i].token_text, parser.escape_html,
                                parser.replace_cosmetic, parser.replace_links)])

\* C8 as stated: inside a tag the flags of the tag decide, whatever the
\* parser's, so that Data inside a tag with escape_html on is always escaped.
C8_TagFlagsAloneDecide ==
  op = "format" =>
    \A i \in 1..Len(Get(ret).calls) :
      LET c == Get(ret).calls[i]
      IN (~TagOf(c).standalone /\ AllData(Content(Tokens, c)))
         => c.value = Some(TransformedContent(Tokens, c, TagOf(c).escape_html,
                                              TagOf(c).replace_cosmetic,
                                              TagOf(c).replace_links))

\* a parser with escape_html off, and a tag with escape_html on whose content
\* has a character to escape
C8_Witness ==
  /\ op = "format"
  /\ ~parser.escape_html
  /\ \E i \in 1..Len(Get(ret).calls) :
       /\ TagOf(Get(ret).calls[i]).escape_html
       /\ Get(ret).calls[i].value # None
       /\ AllData(Content(Tokens, Get(ret).calls[i]))
       /\ Contains(Get(Get(ret).calls[i].value), "<")

\* the TagEnd tokens that close no tag
Unconsumed(tokens, calls) ==
  {k \in Indices(tokens) :
     /\ tokens[k + 1].token_type = TOKEN_TAG_END
     /\ \A i \in 1..Len(calls) : calls[i].end # k}

\* the loop of the renderer over the slice the token at k is in, from the token
\* at j of the list on: the slice is the content of the innermost tag that
\* encloses k, the whole list at the top level
LoopFrom(tokens, calls, context, k, j) ==
  IF Enclosing(calls, k) = {}
  THEN FormatLoop(parser, tokens, context, None, 0, j)
  ELSE LET e == calls[Innermost(calls, k)]
       IN FormatLoop(parser, Content(tokens, e), context, Some(TagOf(e)), e.start + 1,
                     j - (e.start + 1))

NotTagEnd(t) == t.token_type # TOKEN_TAG_END

\* C10, as the source has it: a TagEnd token that closes no tag and that the
\* renderer comes to (one at the top level or in the content of tags that render
\* embedded tags) adds nothing to the output and to the calls of render
\* functions: format("x[/b]y") is "xy" and format("[i][b]x[/i]y[/b]") is
\* "<em><strong>x</strong></em>y".
C10_StrayEndTagRendersNothing ==
  op = "format" =>
    /\ \A k \in Unconsumed(Tokens, Get(ret).calls) :
         ~InsidePlain(Get(ret).calls, k)
           => LoopFrom(Tokens, Get(ret).calls, args.context, k, k)
                = LoopFrom(Tokens, Get(ret).calls, args.context, k, k + 1)
    /\ Get(ret).calls = <<>>
         => Get(ret).formatted
              = _format_tokens(parser, SelectSeq(Tokens, NotTagEnd), args.context, None,
                               0).formatted
    /\ args.data = "x[/b]y" => Get(ret).formatted = "xy"
    /\ args.data = "[i][b]x[/i]y[/b]" => Get(ret).formatted = "<em><strong>x</strong></em>y"

\* C10 as stated: the text of no TagEnd token that closes no tag is handed to a
\* render function, the content of a tag that does not render embedded tags
\* included.
C10_NoStrayEndTagTextInContent ==
  op = "format" =>
    \A k \in Unconsumed(Tokens, Get(ret).calls) :
      InsidePlain(Get(ret).calls, k)
        => LET e == Get(ret).calls[Innermost(Get(ret).calls, k)]
           IN e.value = Some(PlainInner(parser, TagOf(e),
                                        SelectSeq(Content(Tokens, e), NotTagEnd)))

\* a TagEnd that closes nothing after a tag that was rendered, and nothing of
\* its text in the output
C10_Witness ==
  /\ op = "format"
  /\ Get(ret).calls # <<>>
  /\ \E k \in Unconsumed(Tokens, Get(ret).calls) :
       /\ ~InsidePlain(Get(ret).calls, k)
       /\ ~Contains(Get(ret).formatted, Tokens[k + 1].token_text)

\* The opening-tag text read item by item.  An item is a key, the characters up
\* to the first "=" or space, and, after an "=", a value, the characters up to
\* the first space outside double quotes; a space after the key or the value
\* separates the item from the next.

\* the position in s of the first of the characters of set at or after from that
\* Ends(j) holds for, len(s) if there is none
FirstOf(s, set, from, Ends(_)) ==
  MinOr({j \in from..(Len(s) - 1) : CharAt(s, j) \in set /\ Ends(j)}, Len(s))

\* the number of double quotes in s[a:b]
Quotes(s, a, b) == Cardinality({j \in a..(b - 1) : CharAt(s, j) = "\""})

\* the item s begins with whose key ends at kend: its key, its value without the
\* quotes, whether it has an "=", whether a space ends it, and the position in s
\* the next item begins at
ItemAt(s, kend) ==
  LET Outside(j) == Quotes(s, kend + 1, j) % 2 = 0
      eq == kend < Len(s) /\ CharAt(s, kend) = "="
      vend == IF eq THEN FirstOf(s, {" "}, kend + 1, Outside) ELSE kend
  IN [key |-> Slice(s, 0, kend),
      value |-> IF eq THEN StrReplace(Slice(s, kend + 1, vend), "\"", "") ELSE "",
      eq |-> eq,
      spaced |-> vend < Len(s),
      next |-> IF vend < Len(s) THEN vend + 1 ELSE vend]

\* the items of s, in order
RECURSIVE Items(_)
Items(s) ==
  IF s = "" THEN <<>>
  ELSE LET Anywhere(j) == TRUE
           item == ItemAt(s, FirstOf(s, {"=", " "}, 0, Anywhere))
       IN <<item>> \o Items(Slice(s, item.next, Len(s)))

\* the items recorded as options: the first only with an "=", an item of the
\* empty key only with an "=" and a space after its value
Recorded(items) ==
  {i \in 1..Len(items) :
     /\ i > 1 \/ items[i].eq
     /\ items[i].key # "" \/ (items[i].eq /\ items[i].spaced)}

\* the options of the items: each recorded key with the value of its last
\* recorded occurrence
OptionsOf(items) ==
  [k \in {items[i].key : i \in Recorded(items)} |->
     items[Max({i \in Recorded(items) : items[i].key = k})].value]

\* C9: _parse_opts returns the first key of the opening-tag text as the tag name
\* and records it as an option key only when an "=" follows it immediately;
\* every later key maps to its value, where a double quote toggles quoted mode,
\* the spaces inside quotes stay in the value, the quotes are not stored and a
\* space outside quotes ends the value; a later key without "=" maps to the
\* empty string; a repeated key keeps the value of its last occurrence.
C9_ParseOptsReadsItems ==
  op = "_parse_opts" =>
    /\ Get(ret).name = Some(Items(args.data)[1].key)
    /\ Get(ret).opts = OptionsOf(Items(args.data))

\* a first key that is an option too, with a value in quotes that has a space
\* in it and is stored without the quotes
C9_Witness ==
  /\ op = "_parse_opts"
  /\ Len(Items(args.data)) = 1
  /\ Items(args.data)[1].eq
  /\ ~Contains(Items(args.data)[1].key, "\"")
  /\ Quotes(args.data, 0, Len(args.data)) = 2
  /\ Contains(Items(args.data)[1].value, " ")
  /\ Get(ret).name = Some(Items(args.data)[1].key)
  /\ Get(ret).opts = [k \in {Items(args.data)[1].key} |-> Items(args.data)[1].value]

====
